---- MODULE Spec2Model ----
(***************************************************************************)
(* The update dispatch core of peepobot: App.Run's select loop,            *)
(* App.handleUpdate's cooldown gate and command router, the go-cache       *)
(* instance lastUsage behind the gate, and the General handlers that the   *)
(* router starts as goroutines.  The Image handlers, the subscription      *)
(* store and the delivery scheduler are not in the source at hand; their   *)
(* part is written from the design's description of them.                  *)
(*                                                                         *)
(* Time is a discrete clock.  One tick is 1/TicksPerDeci of a tenth of a   *)
(* second, so that a time.Duration finer than the "%.1f" of the cooldown   *)
(* notice exists in the model.  One call of handleUpdate reads the clock   *)
(* at a single instant.                                                    *)
(***************************************************************************)
EXTENDS Integers, Sequences, FiniteSets, TLC

VARIABLES
    now,         \* the clock (time.Now), in ticks
    items,       \* lastUsage: go-cache's map  key -> [Object, Expiration]
    nextSweep,   \* when the go-cache janitor's ticker fires next
    goroutines,  \* the goroutines started by handleUpdate, in spawn order
    run_pc,      \* position of App.Run
    sigChan,     \* number of signals buffered in c (capacity 1)
    receiving,   \* FALSE once bot.StopReceivingUpdates() was called
    dbOpen,      \* FALSE once db.Close() was called
    nUpdates,    \* number of updates taken from updatesChan so far
    admittedAt,  \* history: chat -> time of its last admitted update
    last,        \* history: what the latest handleUpdate call did
    calls,       \* the handleUpdate calls that did their Get and not yet the rest
    subs,        \* the subscription store: the chats that have a subscription
    inflight,    \* chat -> number of scheduled deliveries under way
    delivered,   \* history: chat -> how its latest scheduled delivery ended
    nextCycle    \* when the delivery scheduler's timer fires next

\* the delivery scheduler's state
schedVars == <<inflight, delivered, nextCycle>>

vars == <<now, items, nextSweep, goroutines, run_pc, sigChan, receiving,
          dbOpen, nUpdates, admittedAt, last, calls, subs, schedVars>>

---------------------------------------------------------------------------
(* Bounds of the model *)

\* the clock stops at MaxTime
MaxTime == 5
\* the transport delivers at most MaxUpdates updates
MaxUpdates == 2
\* cfg.CommandCooldown, in ticks (a positive configuration value)
CommandCooldown == 3
\* ticks per tenth of a second
TicksPerDeci == 5
\* the janitor's period, 5*time.Minute in the source, scaled to the horizon
CleanupInterval == 4
\* the delivery scheduler's period, in ticks
DeliveryInterval == 2

ChatIDs == {-7, 7}

\* the results of Message.Command() the transport can deliver
Commands == {"start", "help", "peepo", "sub", "unsub", "sub_info",
             "Start", "stop"}

\* update.Message == nil
NilMessage == [chat |-> 0, isCommand |-> FALSE, command |-> "nil"]

\* a message with text that is no command: IsCommand() is false and
\* Command() returns ""
TextMessage(c) == [chat |-> c, isCommand |-> FALSE, command |-> ""]

CommandMessage(c, tok) == [chat |-> c, isCommand |-> TRUE, command |-> tok]

Messages == {TextMessage(c) : c \in ChatIDs}
            \cup {CommandMessage(c, t) : c \in ChatIDs, t \in Commands}

Updates == {[Message |-> m] : m \in Messages \cup {NilMessage}}

\* the updates the whole program is exercised with: no message, plain text
\* and one listed command; SpecRouter runs the router on every command
GateCommands == {"peepo"}
GateUpdates ==
    {u \in Updates : u.Message.isCommand => u.Message.command \in GateCommands}

\* the updates the subscription store is exercised with
SubCommands == {"sub", "unsub"}
SubUpdates ==
    {[Message |-> CommandMessage(c, t)] : c \in ChatIDs, t \in SubCommands}

---------------------------------------------------------------------------
(* go-cache, as lastUsage uses it *)

\* cache.DefaultExpiration and cache.NoExpiration
DefaultExpiration == 0
NoExpiration == -1

\* what Get and the history variables hold for "no time"
NoTime == -1

\* cache.New(defaultExpiration, cleanupInterval): a zero default means
\* "never expires"
NewDefaultExpiration(de) == IF de = 0 THEN NoExpiration ELSE de

\* the cache's defaultExpiration as New builds it
CacheDefault == NewDefaultExpiration(CommandCooldown)

\* one key for every chat
KeyShared(chatID) == "chat"

\* fmt.Sprint(update.Message.Chat.ID)
Key(chatID) == ToString(chatID)

\* Item.Expired as Get and DeleteExpired test it at clock t
ItemExpired(item, t) == item.Expiration > 0 /\ t > item.Expiration

\* lastUsage.Get(k) at clock t
CacheGet(its, k, t) ==
    IF k \notin DOMAIN its THEN [ok |-> FALSE, value |-> NoTime]
    ELSE IF ItemExpired(its[k], t) THEN [ok |-> FALSE, value |-> NoTime]
    ELSE [ok |-> TRUE, value |-> its[k].Object]

\* the Expiration that Set(k, x, d) computes at clock t
SetExpiration(d, t) ==
    LET dd == IF d = DefaultExpiration THEN CacheDefault ELSE d
    IN  IF dd > 0 THEN t + dd ELSE 0

\* lastUsage.Set(k, x, d) at clock t
CacheSet(its, k, x, d, t) ==
    [kk \in DOMAIN its \cup {k} |->
        IF kk = k THEN [Object |-> x, Expiration |-> SetExpiration(d, t)]
        ELSE its[kk]]

\* a DeleteExpired that also takes the entries expiring at this very tick
DeleteExpiredEager(its, t) ==
    [kk \in {q \in DOMAIN its : t < its[q].Expiration} |-> its[kk]]

\* DeleteExpired at clock t
DeleteExpired(its, t) ==
    [kk \in {q \in DOMAIN its : ~ItemExpired(its[q], t)} |-> its[kk]]

---------------------------------------------------------------------------
(* handleUpdate *)

\* a.cfg.CommandCooldown - time.Since(lastTime)
WaitTime(lastTime, t) == CommandCooldown - (t - lastTime)

\* the gate's test, forgiving the last tick of the window
OnCooldownLate(waitTime) == waitTime > 1

\* the gate's test, denying at the boundary too
OnCooldownInclusive(waitTime) == waitTime >= 0

\* the gate's test
OnCooldown(waitTime) == waitTime > 0

\* a "%.1f" that cuts the digits off instead of rounding
FormatTenthsTrunc(d) == d \div TicksPerDeci

\* "%.1f" of waitTime.Seconds(): the tenths of a second nearest to d ticks
FormatTenths(d) == (2 * d + TicksPerDeci) \div (2 * TicksPerDeci)

\* texts handed to MessageResponse
CooldownNotice(waitTime) ==
    [fmt |-> "Command on cooldown for %.1f sec", tenths |-> FormatTenths(waitTime)]
CommandsOnlyNotice ==
    [fmt |-> "I can only handle listed commands in this chat!", tenths |-> 0]
UnknownNotice == [fmt |-> "Unknown command", tenths |-> 0]
NoText == [fmt |-> "", tenths |-> 0]

\* a plain call in place of the go statement: the handler has run to its
\* end when the caller goes on
Call(fn, chatID, text) ==
    [fn |-> fn, chat |-> chatID, text |-> text, state |-> "done"]

\* a goroutine started by a go statement: the caller goes on at once, the
\* goroutine runs on its own
Go(fn, chatID, text) ==
    [fn |-> fn, chat |-> chatID, text |-> text, state |-> "running"]

\* no goroutine
NoGo == [fn |-> "", chat |-> 0, text |-> NoText, state |-> "none"]

\* the switch with the handlers of sub and unsub exchanged
RouteSwapped(m) ==
    CASE m.command = "start"    -> Go("General.StartResponse", m.chat, NoText)
      [] m.command = "peepo"    -> Go("Image.GetImage", m.chat, NoText)
      [] m.command = "sub"      -> Go("Image.DeleteSubscription", m.chat, NoText)
      [] m.command = "unsub"    -> Go("Image.CreateSubscription", m.chat, NoText)
      [] m.command = "sub_info" -> Go("Image.GetSubscription", m.chat, NoText)
      [] m.command = "help"     -> Go("General.HelpResponse", m.chat, NoText)
      [] OTHER -> Go("General.MessageResponse", m.chat, UnknownNotice)

\* the switch on update.Message.Command()
Route(m) ==
    CASE m.command = "start"    -> Go("General.StartResponse", m.chat, NoText)
      [] m.command = "peepo"    -> Go("Image.GetImage", m.chat, NoText)
      [] m.command = "sub"      -> Go("Image.CreateSubscription", m.chat, NoText)
      [] m.command = "unsub"    -> Go("Image.DeleteSubscription", m.chat, NoText)
      [] m.command = "sub_info" -> Go("Image.GetSubscription", m.chat, NoText)
      [] m.command = "help"     -> Go("General.HelpResponse", m.chat, NoText)
      [] OTHER -> Go("General.MessageResponse", m.chat, UnknownNotice)

\* the statements after lastUsage.Set without the IsCommand test
AfterGateNoCommandTest(m) == Route(m)

\* the statements after lastUsage.Set, for a message that passed the gate
AfterGate(m) ==
    IF ~m.isCommand
    THEN Go("General.MessageResponse", m.chat, CommandsOnlyNotice)
    ELSE Route(m)

\* a gate that records the time of a denied update too
GateRecordsDenied(its, k, t) ==
    LET got == CacheGet(its, k, t)
        w   == WaitTime(got.value, t)
    IN  [admitted |-> ~(got.ok /\ OnCooldown(w)),
         wait |-> IF got.ok /\ OnCooldown(w) THEN w ELSE 0,
         items |-> CacheSet(its, k, t, DefaultExpiration, t)]

\* the cooldown gate at clock t for key k: whether the update passes, the
\* wait time when it does not, and the cache afterwards
Gate(its, k, t) ==
    LET got == CacheGet(its, k, t)
        w   == WaitTime(got.value, t)
    IN  IF got.ok /\ OnCooldown(w)
        THEN [admitted |-> FALSE, wait |-> w, items |-> its]
        ELSE [admitted |-> TRUE, wait |-> 0,
              items |-> CacheSet(its, k, t, DefaultExpiration, t)]

\* the denied branch without its notice
DeniedSpawnNone(m, w) == <<>>

\* the denied branch without its return: the router runs as well
DeniedSpawnFallsThrough(m, w) ==
    <<Go("General.MessageResponse", m.chat, CooldownNotice(w)), AfterGate(m)>>

\* the goroutines started for a message the gate denied with wait time w
DeniedSpawn(m, w) ==
    <<Go("General.MessageResponse", m.chat, CooldownNotice(w))>>

\* what handleUpdate does with update u at clock t on cache its: the
\* outcome, the cache afterwards and the goroutines it starts
HandleResult(u, its, t) ==
    IF u.Message = NilMessage
    THEN \* update.Message.Chat.ID dereferences the nil Message
         [outcome |-> "panic", items |-> its, spawn |-> <<>>]
    ELSE LET m == u.Message
             g == Gate(its, Key(m.chat), t)
         IN  IF ~g.admitted
             THEN [outcome |-> "denied", items |-> g.items,
                   spawn |-> DeniedSpawn(m, g.wait)]
             ELSE [outcome |-> "admitted", items |-> g.items,
                   spawn |-> <<AfterGate(m)>>]

---------------------------------------------------------------------------
(* The state machine *)

Init ==
    /\ now = 0
    /\ items = <<>>
    /\ nextSweep = CleanupInterval
    /\ goroutines = <<>>
    /\ run_pc = "select"
    /\ sigChan = 0
    /\ receiving = TRUE
    /\ dbOpen = TRUE
    /\ nUpdates = 0
    /\ admittedAt = [c \in ChatIDs |-> NoTime]
    /\ last = [n |-> 0, chat |-> 0, at |-> 0, prev |-> NoTime,
               present |-> FALSE, outcome |-> "none", hasMessage |-> FALSE,
               isCommand |-> FALSE, command |-> "", go |-> NoGo]
    /\ calls = <<>>
    /\ subs = {}
    /\ inflight = [c \in ChatIDs |-> 0]
    /\ delivered = [c \in ChatIDs |-> "none"]
    /\ nextCycle = DeliveryInterval

\* time passes, as long as the process lives
Tick ==
    /\ run_pc # "panicked"
    /\ now < MaxTime
    /\ now' = now + 1
    /\ UNCHANGED <<items, nextSweep, goroutines, run_pc, sigChan, receiving,
                   dbOpen, nUpdates, admittedAt, last>>
    /\ UNCHANGED <<calls, subs, schedVars>>

\* the janitor goroutine: its ticker fired, it runs DeleteExpired
Janitor ==
    /\ run_pc # "panicked"
    /\ now >= nextSweep
    /\ items' = DeleteExpired(items, now)
    /\ nextSweep' = nextSweep + CleanupInterval
    /\ UNCHANGED <<now, goroutines, run_pc, sigChan, receiving, dbOpen,
                   nUpdates, admittedAt, last>>
    /\ UNCHANGED <<calls, subs, schedVars>>

\* case update := <-updatesChan: a.handleUpdate(&update)
HandleUpdate(u) ==
    /\ run_pc = "select"
    /\ receiving
    /\ nUpdates < MaxUpdates
    /\ LET r == HandleResult(u, items, now)
           m == u.Message
           c == m.chat
       IN  /\ items' = r.items
           /\ goroutines' = goroutines \o r.spawn
           /\ run_pc' = IF r.outcome = "panic" THEN "panicked" ELSE "select"
           /\ admittedAt' = IF r.outcome = "admitted"
                            THEN [admittedAt EXCEPT ![c] = now]
                            ELSE admittedAt
           /\ last' = [n |-> nUpdates + 1, chat |-> c, at |-> now,
                       prev |-> IF c \in ChatIDs THEN admittedAt[c] ELSE NoTime,
                       present |-> Key(c) \in DOMAIN items,
                       outcome |-> r.outcome,
                       hasMessage |-> m # NilMessage,
                       isCommand |-> m.isCommand,
                       command |-> m.command,
                       go |-> IF r.spawn = <<>> THEN NoGo ELSE r.spawn[1]]
    /\ nUpdates' = nUpdates + 1
    /\ UNCHANGED <<now, nextSweep, sigChan, receiving, dbOpen>>
    /\ UNCHANGED <<calls, subs, schedVars>>

\* the Image handlers, which all go to the storage
StorageHandlers == {"Image.GetImage", "Image.CreateSubscription",
                    "Image.DeleteSubscription", "Image.GetSubscription"}

\* how an Image handler ends: it goes to the storage, which fails when the
\* database was closed before
StorageState(open) == IF open THEN "done" ELSE "db_closed"

\* what a goroutine's state is when its handler returns: the General
\* handlers send one message and log a failed send
FinishState(g, sendOk) ==
    IF g.fn \in {"General.MessageResponse", "General.StartResponse",
                 "General.HelpResponse"}
    THEN IF sendOk THEN "sent" ELSE "logged"
    ELSE StorageState(dbOpen)

\* the subscription store after handler g wrote to it: sub puts the chat's
\* record, unsub deletes it (a no-op when there is none), the others read
StoreAfter(g, ss) ==
    CASE g.fn = "Image.CreateSubscription" -> ss \cup {g.chat}
      [] g.fn = "Image.DeleteSubscription" -> ss \ {g.chat}
      [] OTHER -> ss

\* a handler that ends the process on a failed send (log.Fatalf in place of
\* log.Printf)
GoroutineFinishFatal(i, sendOk) ==
    /\ run_pc # "panicked"
    /\ goroutines[i].state = "running"
    /\ goroutines' = [goroutines EXCEPT ![i].state = FinishState(goroutines[i], sendOk)]
    /\ subs' = IF dbOpen THEN StoreAfter(goroutines[i], subs) ELSE subs
    /\ run_pc' = IF goroutines'[i].state = "logged" THEN "panicked" ELSE run_pc
    /\ UNCHANGED <<now, items, nextSweep, sigChan, receiving, dbOpen,
                   nUpdates, admittedAt, last>>
    /\ UNCHANGED <<calls, schedVars>>

\* goroutine i runs to its end; bot.Send succeeds or returns an error
GoroutineFinish(i, sendOk) ==
    /\ run_pc # "panicked"
    /\ goroutines[i].state = "running"
    /\ goroutines' = [goroutines EXCEPT ![i].state = FinishState(goroutines[i], sendOk)]
    /\ subs' = IF dbOpen THEN StoreAfter(goroutines[i], subs) ELSE subs
    /\ UNCHANGED <<now, items, nextSweep, run_pc, sigChan, receiving, dbOpen,
                   nUpdates, admittedAt, last>>
    /\ UNCHANGED <<calls, schedVars>>

\* the operating system delivers SIGINT or SIGTERM; signal.Notify does not
\* block, a signal that finds the buffer full is dropped
Signal ==
    /\ run_pc # "panicked"
    /\ sigChan = 0
    /\ sigChan' = 1
    /\ UNCHANGED <<now, items, nextSweep, goroutines, run_pc, receiving,
                   dbOpen, nUpdates, admittedAt, last>>
    /\ UNCHANGED <<calls, subs, schedVars>>

\* case <-c: ... a.bot.StopReceivingUpdates()
ShutdownStart ==
    /\ run_pc = "select"
    /\ sigChan > 0
    /\ sigChan' = sigChan - 1
    /\ receiving' = FALSE
    /\ run_pc' = "close"
    /\ UNCHANGED <<now, items, nextSweep, goroutines, dbOpen, nUpdates,
                   admittedAt, last>>
    /\ UNCHANGED <<calls, subs, schedVars>>

\* the shutdown branch without db.Close()
ShutdownSkipsClose ==
    /\ run_pc = "close"
    /\ run_pc' = "return"
    /\ UNCHANGED <<now, items, nextSweep, goroutines, sigChan, receiving,
                   dbOpen, nUpdates, admittedAt, last>>
    /\ UNCHANGED <<calls, subs, schedVars>>

\* _ = a.db.Close()
ShutdownClose ==
    /\ run_pc = "close"
    /\ dbOpen' = FALSE
    /\ run_pc' = "return"
    /\ UNCHANGED <<now, items, nextSweep, goroutines, sigChan, receiving,
                   nUpdates, admittedAt, last>>
    /\ UNCHANGED <<calls, subs, schedVars>>

\* return
ShutdownReturn ==
    /\ run_pc = "return"
    /\ run_pc' = "returned"
    /\ UNCHANGED <<now, items, nextSweep, goroutines, sigChan, receiving,
                   dbOpen, nUpdates, admittedAt, last>>
    /\ UNCHANGED <<calls, subs, schedVars>>

Next ==
    \/ Tick
    \/ Janitor
    \/ \E u \in GateUpdates : HandleUpdate(u)
    \/ \E i \in DOMAIN goroutines, ok \in BOOLEAN : GoroutineFinish(i, ok)
    \/ Signal
    \/ ShutdownStart
    \/ ShutdownClose
    \/ ShutdownReturn

Spec == Init /\ [][Next]_vars

\* the select takes a ready case at random, so a pending signal is taken in
\* the end, and the statements of the shutdown branch run one after another
SpecFair ==
    /\ Spec
    /\ WF_vars(ShutdownStart)
    /\ WF_vars(ShutdownClose)
    /\ WF_vars(ShutdownReturn)

\* a scheduler that starts a delivery whether or not one is under way
CanStartAlways(c, fl) == TRUE

\* the scheduler starts a delivery to a chat only when none is under way
CanStart(c, fl) == fl[c] = 0

\* a delivery that trusts the list its cycle was started with
StillActiveUnchecked(c, ss) == TRUE

\* a delivery looks the subscription up again when it is about to send
StillActive(c, ss) == c \in ss

\* the delivery scheduler's timer fired: it lists the active subscriptions
\* and starts a delivery for each chat that has none under way
SchedulerTick ==
    /\ run_pc # "panicked"
    /\ now >= nextCycle
    /\ nextCycle' = nextCycle + DeliveryInterval
    /\ inflight' = [c \in ChatIDs |->
                       IF c \in subs /\ CanStart(c, inflight)
                       THEN inflight[c] + 1 ELSE inflight[c]]
    /\ delivered' = [c \in ChatIDs |->
                        IF c \notin subs THEN delivered[c]
                        ELSE IF inflight'[c] > inflight[c] THEN "started"
                        ELSE "held"]
    /\ UNCHANGED <<now, items, nextSweep, goroutines, run_pc, sigChan,
                   receiving, dbOpen, nUpdates, admittedAt, last, calls, subs>>

\* a delivery to chat c ends: the content fetch or the send failed, or the
\* chat is still subscribed and gets the content, or it is not and gets
\* nothing
DeliveryFinish(c, ok) ==
    /\ run_pc # "panicked"
    /\ inflight[c] > 0
    /\ inflight' = [inflight EXCEPT ![c] = inflight[c] - 1]
    /\ delivered' = [delivered EXCEPT ![c] =
                        IF ~ok THEN "failed"
                        ELSE IF StillActive(c, subs) THEN "sent"
                        ELSE "skipped"]
    /\ UNCHANGED <<now, items, nextSweep, goroutines, run_pc, sigChan,
                   receiving, dbOpen, nUpdates, admittedAt, last, calls, subs,
                   nextCycle>>

\* the subscription commands, their handlers and the delivery scheduler,
\* with no shutdown signal
NextSubs ==
    \/ Tick
    \/ Janitor
    \/ \E u \in SubUpdates : HandleUpdate(u)
    \/ \E i \in DOMAIN goroutines, ok \in BOOLEAN : GoroutineFinish(i, ok)
    \/ SchedulerTick
    \/ \E c \in ChatIDs, ok \in BOOLEAN : DeliveryFinish(c, ok)

SpecSubs == Init /\ [][NextSubs]_vars

\* a loop that starts every handleUpdate call as a goroutine of its own
LoopFreeAsync(cs) == TRUE

\* Run calls handleUpdate in its own goroutine: it is back at the select
\* only when the call has returned
LoopFree(cs) == cs = <<>>

\* handleUpdate step by step.  First step: Run takes an update and the call
\* does its lastUsage.Get
CallStart(u) ==
    /\ run_pc = "select"
    /\ receiving
    /\ nUpdates < MaxUpdates
    /\ LoopFree(calls)
    /\ nUpdates' = nUpdates + 1
    /\ IF u.Message = NilMessage
       THEN /\ run_pc' = "panicked"
            /\ calls' = calls
            /\ last' = [n |-> nUpdates + 1, chat |-> u.Message.chat, at |-> now,
                        prev |-> NoTime, present |-> FALSE,
                        outcome |-> "panic", hasMessage |-> FALSE,
                        isCommand |-> FALSE, command |-> u.Message.command,
                        go |-> NoGo]
       ELSE /\ run_pc' = run_pc
            /\ calls' = Append(calls,
                    [n |-> nUpdates + 1, m |-> u.Message,
                     present |-> Key(u.Message.chat) \in DOMAIN items,
                     got |-> CacheGet(items, Key(u.Message.chat), now)])
            /\ last' = last
    /\ UNCHANGED <<now, items, nextSweep, goroutines, sigChan, receiving,
                   dbOpen, admittedAt, subs, schedVars>>

\* second step: call i reads the clock, decides, and on admission does its
\* lastUsage.Set; it starts its goroutine and returns
CallFinish(i) ==
    LET call   == calls[i]
        m      == call.m
        c      == m.chat
        w      == WaitTime(call.got.value, now)
        denied == call.got.ok /\ OnCooldown(w)
        spawn  == IF denied THEN DeniedSpawn(m, w) ELSE <<AfterGate(m)>>
    IN  /\ run_pc # "panicked"
        /\ items' = IF denied THEN items
                     ELSE CacheSet(items, Key(c), now, DefaultExpiration, now)
        /\ goroutines' = goroutines \o spawn
        /\ admittedAt' = IF denied THEN admittedAt
                         ELSE [admittedAt EXCEPT ![c] = now]
        /\ last' = [n |-> call.n, chat |-> c, at |-> now,
                    prev |-> admittedAt[c], present |-> call.present,
                    outcome |-> IF denied THEN "denied" ELSE "admitted",
                    hasMessage |-> TRUE, isCommand |-> m.isCommand,
                    command |-> m.command,
                    go |-> IF spawn = <<>> THEN NoGo ELSE spawn[1]]
        /\ calls' = [j \in 1..(Len(calls) - 1) |->
                        IF j < i THEN calls[j] ELSE calls[j + 1]]
        /\ UNCHANGED <<now, nextSweep, run_pc, sigChan, receiving, dbOpen,
                       nUpdates, subs, schedVars>>

\* the gate with handleUpdate taken step by step
NextSteps ==
    \/ Tick
    \/ Janitor
    \/ \E u \in GateUpdates : CallStart(u)
    \/ \E i \in DOMAIN calls : CallFinish(i)

SpecSteps == Init /\ [][NextSteps]_vars

\* the gate and the router exercised with every command token, with no
\* shutdown signal and the handlers' own progress left out
NextRouter ==
    \/ Tick
    \/ Janitor
    \/ \E u \in Updates : HandleUpdate(u)

SpecRouter == Init /\ [][NextRouter]_vars

---------------------------------------------------------------------------
(* Properties *)

Abs(x) == IF x < 0 THEN -x ELSE x

\* this step is a handleUpdate call for a message of chat c
Handled(c) == nUpdates' = nUpdates + 1 /\ last'.hasMessage /\ last'.chat = c

\* the latest call was for a message of a chat whose last admission is less
\* than CommandCooldown back
LastInsideWindow ==
    /\ last.hasMessage
    /\ last.prev # NoTime
    /\ last.at < last.prev + CommandCooldown

\* the wait left at the latest call: (T + CommandCooldown) - T'
LastRemaining == (last.prev + CommandCooldown) - last.at

\* the latest call started exactly one goroutine, the cooldown notice
LastGotCooldownNotice ==
    /\ last.go.fn = "General.MessageResponse"
    /\ last.go.chat = last.chat
    /\ last.go.text.fmt = "Command on cooldown for %.1f sec"

\* C1: a chat admitted at T is not admitted again before T + CommandCooldown,
\* whether its cache entry is still there, has expired or was swept.
C1_CooldownWindow ==
    (last.outcome = "admitted" /\ last.prev # NoTime)
        => last.at >= last.prev + CommandCooldown

\* a chat is admitted a second time after the janitor removed its entry
C1_Witness ==
    /\ last.outcome = "admitted"
    /\ last.prev # NoTime
    /\ ~last.present

\* C2 as stated: an update inside the window is denied and the notice
\* reports exactly (T + CommandCooldown) - T'.
C2_ExactRemaining ==
    LastInsideWindow
        => /\ last.outcome = "denied"
           /\ LastGotCooldownNotice
           /\ last.go.text.tenths * TicksPerDeci = LastRemaining

\* C2 as amended: an update inside the window is denied and the notice
\* reports (T + CommandCooldown) - T' rounded to the nearest tenth of a
\* second.
C2_RoundedRemaining ==
    LastInsideWindow
        => /\ last.outcome = "denied"
           /\ LastGotCooldownNotice
           /\ 2 * Abs(last.go.text.tenths * TicksPerDeci - LastRemaining)
                 <= TicksPerDeci

\* an update is denied with a wait that is no whole number of tenths
C2_Witness ==
    /\ LastInsideWindow
    /\ last.outcome = "denied"
    /\ last.go.text.tenths * TicksPerDeci # LastRemaining

\* C3: an update of a chat that has no cache entry, or whose last admission
\* is CommandCooldown or more back, is admitted and the current time is
\* recorded as the chat's last-served time.
C3_AdmitsAndRecords ==
    [][\A c \in ChatIDs :
          (/\ Handled(c)
           /\ \/ Key(c) \notin DOMAIN items
              \/ admittedAt[c] = NoTime
              \/ now - admittedAt[c] >= CommandCooldown)
          => /\ last'.outcome = "admitted"
             /\ Key(c) \in DOMAIN items'
             /\ items'[Key(c)].Object = now]_vars

\* an update arriving exactly CommandCooldown after the last admission was
\* admitted and its time is the recorded one
C3_Witness ==
    /\ last.outcome = "admitted"
    /\ last.prev # NoTime
    /\ last.at = last.prev + CommandCooldown
    /\ items[Key(last.chat)].Object = last.at

\* C4: a denied update leaves the cache, and with it the chat's last-served
\* time and its expiry, as it was.
C4_DeniedKeepsState ==
    [][(nUpdates' = nUpdates + 1 /\ last'.outcome = "denied")
          => items' = items]_vars

\* an update was denied and the chat's entry still holds the earlier time
C4_Witness ==
    /\ last.outcome = "denied"
    /\ last.at > last.prev
    /\ Key(last.chat) \in DOMAIN items
    /\ items[Key(last.chat)].Object = last.prev

\* C5: an update without a message is dropped silently: nothing is started,
\* handleUpdate returns and the loop goes on.
C5_NilMessageDropped ==
    (last.n > 0 /\ ~last.hasMessage)
        => (run_pc # "panicked" /\ last.go = NoGo)

\* the goroutine this step started last
Started == goroutines'[Len(goroutines')]

\* this step started exactly one goroutine and touched no earlier one
StartedOne ==
    /\ Len(goroutines') = Len(goroutines) + 1
    /\ \A i \in DOMAIN goroutines : goroutines'[i] = goroutines[i]

\* the rest of the dispatch state, apart from the cache and the goroutines
LoopState == <<run_pc, sigChan, receiving, dbOpen, nextSweep, now>>

ListedCommands == {"start", "help", "peepo", "sub", "unsub", "sub_info"}

\* C6: a denied update starts exactly one goroutine, the cooldown notice to
\* its chat; no command handler, no 'commands only' notice and no 'Unknown
\* command' notice is started, whatever the update's text.
C6_DeniedOnlyNotice ==
    [][(nUpdates' = nUpdates + 1 /\ last'.outcome = "denied")
          => /\ StartedOne
             /\ Started.fn = "General.MessageResponse"
             /\ Started.chat = last'.chat
             /\ Started.text.fmt = "Command on cooldown for %.1f sec"]_vars

\* a sub command was denied: two updates, two goroutines, the second one the
\* cooldown notice
C6_Witness ==
    /\ last.outcome = "denied"
    /\ last.isCommand
    /\ last.command = "sub"
    /\ Len(goroutines) = 2
    /\ goroutines[2].text.fmt = "Command on cooldown for %.1f sec"

\* C7 as stated: an update whose text is no command gets the 'commands
\* only' notice and changes no state.
C7_NoStateMutation ==
    [][\A c \in ChatIDs :
          (Handled(c) /\ ~last'.isCommand)
          => /\ StartedOne
             /\ Started = Go("General.MessageResponse", c, CommandsOnlyNotice)
             /\ items' = items
             /\ LoopState' = LoopState]_vars

\* C7 as amended: an update whose text is no command gets the 'commands
\* only' notice when it passes the gate, and then its chat's cache entry is
\* set to the current time and nothing else changes; when the gate denies it,
\* it gets the cooldown notice and no state changes.
C7_TextUpdate ==
    [][\A c \in ChatIDs :
          (Handled(c) /\ ~last'.isCommand)
          => /\ StartedOne
             /\ Started.fn = "General.MessageResponse"
             /\ Started.chat = c
             /\ LoopState' = LoopState
             /\ IF last'.outcome = "admitted"
                THEN /\ Started.text = CommandsOnlyNotice
                     /\ DOMAIN items' = DOMAIN items \cup {Key(c)}
                     /\ items'[Key(c)] =
                            [Object |-> now, Expiration |-> now + CommandCooldown]
                     /\ \A k \in DOMAIN items \ {Key(c)} : items'[k] = items[k]
                ELSE /\ Started.text.fmt = "Command on cooldown for %.1f sec"
                     /\ items' = items]_vars

\* a text update was admitted and its time is now the chat's entry, which
\* held an earlier time before
C7_Witness ==
    /\ last.hasMessage
    /\ ~last.isCommand
    /\ last.outcome = "admitted"
    /\ last.go.text = CommandsOnlyNotice
    /\ last.prev # NoTime
    /\ last.prev < last.at
    /\ items[Key(last.chat)].Object = last.at

\* C8: an admitted command update starts the handler of its exact,
\* case-sensitive token and no other; every token outside the six listed
\* ones starts the 'Unknown command' notice.
C8_Routing ==
    (last.outcome = "admitted" /\ last.isCommand)
        => LET g == last.go
               t == last.command
           IN  /\ g.chat = last.chat
               /\ (t = "start") <=> (g.fn = "General.StartResponse")
               /\ (t = "help") <=> (g.fn = "General.HelpResponse")
               /\ (t = "peepo") <=> (g.fn = "Image.GetImage")
               /\ (t = "sub") <=> (g.fn = "Image.CreateSubscription")
               /\ (t = "unsub") <=> (g.fn = "Image.DeleteSubscription")
               /\ (t = "sub_info") <=> (g.fn = "Image.GetSubscription")
               /\ (t \notin ListedCommands)
                      <=> (g.fn = "General.MessageResponse" /\ g.text = UnknownNotice)

\* the token "Start" was admitted and got the 'Unknown command' notice
C8_Witness ==
    /\ last.outcome = "admitted"
    /\ last.command = "Start"
    /\ last.go = Go("General.MessageResponse", last.chat, UnknownNotice)

\* C9: handleUpdate returns to the select with the goroutine it started
\* still running and without having waited for any earlier goroutine.
C9_LoopNeverWaits ==
    [][(nUpdates' = nUpdates + 1 /\ last'.hasMessage)
          => /\ run_pc' = "select"
             /\ StartedOne
             /\ Started.state = "running"]_vars

\* update 2 was handled while the GetImage handler of update 1 was still
\* running, and both goroutines are running
C9_Witness ==
    /\ last.n = 2
    /\ Len(goroutines) = 2
    /\ goroutines[1].fn = "Image.GetImage"
    /\ goroutines[1].state = "running"
    /\ goroutines[2].state = "running"

\* C10: the shutdown branch stops the receiving of updates as it starts,
\* Run returns only with the updates stopped and the database closed, and
\* no update is handled once the branch has started.
C10_Shutdown ==
    [][/\ (run_pc = "select" /\ run_pc' \notin {"select", "panicked"})
            => (sigChan > 0 /\ ~receiving')
       /\ (run_pc' = "returned") => (~receiving' /\ ~dbOpen')
       /\ (run_pc \in {"close", "return", "returned"})
            => (nUpdates' = nUpdates /\ last' = last
                /\ run_pc' \in {"close", "return", "returned"})]_vars

\* Run has returned after a signal, with an update handled before and the
\* transport's bound on updates not reached
C10_Witness ==
    /\ run_pc = "returned"
    /\ ~receiving
    /\ ~dbOpen
    /\ nUpdates = 1

\* C12: a failed bot.Send in MessageResponse, StartResponse or HelpResponse
\* is logged and the handler returns; the failure changes nothing else: the
\* loop stays where it is, the cache and every other goroutine are as before.
C12_SendFailureNotFatal ==
    [][\A i \in DOMAIN goroutines :
          (goroutines[i].state = "running" /\ goroutines'[i].state = "logged")
          => /\ goroutines[i].fn \in {"General.MessageResponse",
                                      "General.StartResponse",
                                      "General.HelpResponse"}
             /\ run_pc' = run_pc
             /\ items' = items
             /\ admittedAt' = admittedAt
             /\ <<sigChan, receiving, dbOpen, nUpdates, last>>'
                    = <<sigChan, receiving, dbOpen, nUpdates, last>>
             /\ Len(goroutines') = Len(goroutines)
             /\ \A j \in DOMAIN goroutines :
                    j # i => goroutines'[j] = goroutines[j]]_vars

\* the send of chat A's first notice failed, and an update of another chat
\* was admitted with the loop back at its select
C12_Witness ==
    /\ Len(goroutines) = 2
    /\ goroutines[1].state = "logged"
    /\ goroutines[1].chat # last.chat
    /\ last.n = 2
    /\ last.outcome = "admitted"
    /\ run_pc = "select"

\* C17 as stated: a chat's entry is kept for several multiples of the
\* cooldown after the chat's last admission (for at least two of them).
C17_KeptSeveralCooldowns ==
    \A c \in ChatIDs :
        (admittedAt[c] # NoTime /\ now < admittedAt[c] + 2 * CommandCooldown)
            => Key(c) \in DOMAIN items

\* C17 as amended: a chat's entry is kept for CommandCooldown after the
\* chat's last admission; after that it stays until the janitor's next
\* sweep, which alone removes it, and only when it has expired;
\* handleUpdate never removes an entry.
C17_KeptUntilSweep ==
    [][/\ \A c \in ChatIDs :
            (admittedAt'[c] # NoTime /\ now' <= admittedAt'[c] + CommandCooldown)
                => Key(c) \in DOMAIN items'
       /\ \A k \in DOMAIN items :
            k \notin DOMAIN items'
                => /\ nextSweep' = nextSweep + CleanupInterval
                   /\ nUpdates' = nUpdates
                   /\ now > items[k].Object + CommandCooldown]_vars

\* the janitor removed a chat's entry less than two cooldowns after the
\* chat's last admission
C17_Witness ==
    \E c \in ChatIDs :
        /\ admittedAt[c] # NoTime
        /\ now < admittedAt[c] + 2 * CommandCooldown
        /\ Key(c) \notin DOMAIN items

\* C18: an update that carries a message starts exactly one goroutine: the
\* cooldown notice, the 'commands only' notice, one command handler or the
\* 'Unknown command' notice.
C18_ExactlyOneAction ==
    [][(nUpdates' = nUpdates + 1 /\ last'.hasMessage)
          => /\ StartedOne
             /\ Started.chat = last'.chat
             /\ Started.state = "running"
             /\ \/ /\ Started.fn = "General.MessageResponse"
                   /\ \/ Started.text.fmt = "Command on cooldown for %.1f sec"
                      \/ Started.text = CommandsOnlyNotice
                      \/ Started.text = UnknownNotice
                \/ /\ Started.fn \in {"General.StartResponse",
                                      "General.HelpResponse",
                                      "Image.GetImage",
                                      "Image.CreateSubscription",
                                      "Image.DeleteSubscription",
                                      "Image.GetSubscription"}
                   /\ Started.text = NoText]_vars

\* two updates with a message were handled and two goroutines exist: a
\* sub_info handler and an 'Unknown command' notice
C18_Witness ==
    /\ nUpdates = 2
    /\ Len(goroutines) = 2
    /\ goroutines[1].fn = "Image.GetSubscription"
    /\ goroutines[2].text = UnknownNotice

\* C19: handling an update of chat a leaves every other chat's entry as it
\* was, and whether the update is denied depends on a's own last admission
\* and the clock alone.
C19_PerChatCooldown ==
    [][\A a \in ChatIDs :
          Handled(a)
          => /\ \A b \in ChatIDs \ {a} :
                    /\ admittedAt'[b] = admittedAt[b]
                    /\ (Key(b) \in DOMAIN items') <=> (Key(b) \in DOMAIN items)
                    /\ Key(b) \in DOMAIN items => items'[Key(b)] = items[Key(b)]
             /\ (last'.outcome = "denied")
                    <=> (admittedAt[a] # NoTime
                         /\ now < admittedAt[a] + CommandCooldown)]_vars

\* chat 7 was admitted inside chat -7's window, and chat -7's entry still
\* holds chat -7's own time
C19_Witness ==
    /\ last.chat = 7
    /\ last.outcome = "admitted"
    /\ admittedAt[-7] # NoTime
    /\ last.at > admittedAt[-7]
    /\ last.at < admittedAt[-7] + CommandCooldown
    /\ Key(-7) \in DOMAIN items
    /\ items[Key(-7)].Object = admittedAt[-7]

\* C16: once a signal is in Run's channel, Run takes the shutdown branch
\* and returns in the end.
C16_ShutdownReached == (sigChan > 0) ~> (run_pc = "returned")

\* C20: no handler goes to the storage after db.Close().
C20_NoStorageAfterClose ==
    \A i \in DOMAIN goroutines : goroutines[i].state # "db_closed"

\* the goroutines that write chat c's subscription
SubWriters(c) ==
    {i \in DOMAIN goroutines :
        /\ goroutines[i].chat = c
        /\ goroutines[i].fn \in {"Image.CreateSubscription",
                                 "Image.DeleteSubscription"}}

\* the latest of them in arrival order
LastWriter(c) == CHOOSE i \in SubWriters(c) : \A j \in SubWriters(c) : j <= i

\* when the sub and unsub handlers of chat c have all ended, the chat's
\* subscription is what the commands give in arrival order
ArrivalOrderState(c) ==
    (/\ SubWriters(c) # {}
     /\ \A i \in SubWriters(c) : goroutines[i].state = "done")
    => ((c \in subs)
            <=> (goroutines[LastWriter(c)].fn = "Image.CreateSubscription"))

\* C11: the sub and unsub handlers of one chat never run at the same time,
\* and when they have all ended the chat's subscription is what the
\* commands give in arrival order.
C11_SerializedSubscriptionWrites ==
    \A c \in ChatIDs :
        /\ Cardinality({i \in SubWriters(c) :
                            goroutines[i].state = "running"}) <= 1
        /\ ArrivalOrderState(c)

C15_SerializedAdmission ==
    /\ Len(calls) <= 1
    /\ (last.outcome = "admitted" /\ last.prev # NoTime)
           => last.at >= last.prev + CommandCooldown

\* the second update of a chat did its look-up inside the window of the
\* first, after the first was recorded, and found the first's time
C15_Witness ==
    /\ Len(calls) = 1
    /\ last.outcome = "admitted"
    /\ calls[1].m.chat = last.chat
    /\ calls[1].got.ok
    /\ calls[1].got.value = last.at
    /\ now < last.at + CommandCooldown

====
